---- MODULE Spec2Model ----
(***************************************************************************)
(* Model of the sale order discount wizard (sale.order.discount) of        *)
(* addons/sale/wizard/sale_order_discount.py.                              *)
(*                                                                         *)
(* Monetary and percentage values are Python floats in the source; here    *)
(* they are exact rationals [n, d] (d > 0, lowest terms), so the model     *)
(* states the arithmetic of the code without binary rounding noise.        *)
(***************************************************************************)
EXTENDS Integers, Sequences, FiniteSets

VARIABLES order_line, sale_discount_product_id, products, wizard,
          access, exception, result, napply

vars == <<order_line, sale_discount_product_id, products, wizard,
          access, exception, result, napply>>

----------------------------------------------------------------------------
(* Bounds of the model *)

MaxLines == 1
MaxApply == 2
MaxOrder == 2

----------------------------------------------------------------------------
(* Exact rational arithmetic standing for Python float arithmetic *)

Abs(x) == IF x < 0 THEN -x ELSE x

RECURSIVE GCD(_, _)
GCD(a, b) == IF b = 0 THEN a ELSE GCD(b, a % b)

Norm(n, d) ==
    LET s == IF d < 0 THEN -1 ELSE 1
        g == GCD(Abs(n), Abs(d))
    IN  [n |-> (s * n) \div g, d |-> (s * d) \div g]

Q(i) == [n |-> i, d |-> 1]
Frac(a, b) == Norm(a, b)
RAdd(a, b) == Norm(a.n * b.d + b.n * a.d, a.d * b.d)
RNeg(a) == [n |-> -a.n, d |-> a.d]
RSub(a, b) == RAdd(a, RNeg(b))
RMul(a, b) == Norm(a.n * b.n, a.d * b.d)
RDiv(a, b) == Norm(a.n * b.d, a.d * b.n)
RGt(a, b) == a.n * b.d > b.n * a.d
RLt(a, b) == a.n * b.d < b.n * a.d
Truthy(a) == a.n # 0

RECURSIVE RSumSeq(_)
RSumSeq(s) == IF s = <<>> THEN Q(0) ELSE RAdd(Head(s), RSumSeq(Tail(s)))

Range(s) == {s[i] : i \in DOMAIN s}

----------------------------------------------------------------------------
(* Records of the surrounding system *)

NoProduct == 0
NoWizard == [discount_type |-> "none"]
OrdinaryProduct == 100
ConfiguredProduct == 200
DefaultSequence == 10
DiscountSequence == 999
DiscountDP == 2
NoAccess == [create |-> FALSE, write |-> FALSE, field_write |-> FALSE]

\* taxes 1 and 2: 10% and 20%, price-excluded
TaxRate(t) == IF t = 1 THEN Frac(1, 10) ELSE Frac(1, 5)

\* an order line entered by the order-management system
UserLine(qty, price, disc, taxes) ==
    [product_id |-> OrdinaryProduct, sequence |-> DefaultSequence,
     product_uom_qty |-> Q(qty), price_unit |-> Q(price),
     discount |-> Q(disc), tax_ids |-> taxes, name |-> <<"product">>]

LineChoices ==
    { UserLine(1, 100, 0, <<1>>),
      UserLine(2, 100, 50, <<1, 2>>),
      UserLine(1, 50, 0, <<2, 1>>),
      UserLine(1, 50, 0, <<>>),
      UserLine(1, -20, 0, <<1>>),
      UserLine(0, 100, 0, <<1>>),
      UserLine(1, 0, 0, <<2>>) }

DiscountTypes == {"sol_discount", "so_discount", "amount"}
Percentages == {Frac(1, 5), Frac(3, 2)}
Amounts == {Q(30)}

\* the values the wizard form submits: the field of the chosen kind is
\* filled in, the other keeps its default 0
WizardVals ==
    {[discount_type |-> t, discount_percentage |-> p, discount_amount |-> Q(0)] :
        t \in DiscountTypes \ {"amount"}, p \in Percentages}
    \cup {[discount_type |-> "amount", discount_percentage |-> Q(0),
           discount_amount |-> a] : a \in Amounts}

AccessRights == [create : BOOLEAN, write : BOOLEAN, field_write : BOOLEAN]

----------------------------------------------------------------------------
(* Collaborators: the order and the record store *)

\* price_unit * (1 - discount/100) * product_uom_qty of one line
LineSubtotal(line) ==
    RMul(RMul(line.price_unit,
              RSub(Q(1), RDiv(line.discount, Q(100)))),
         line.product_uom_qty)

RECURSIVE TaxFactor(_)
TaxFactor(taxes) ==
    IF taxes = <<>> THEN Q(0)
    ELSE RAdd(TaxRate(Head(taxes)), TaxFactor(Tail(taxes)))

\* sale.order.amount_total: untaxed subtotals plus price-excluded percent taxes
RECURSIVE amount_total(_)
amount_total(lines) ==
    IF lines = <<>> THEN Q(0)
    ELSE RAdd(RMul(LineSubtotal(Head(lines)),
                   RAdd(Q(1), TaxFactor(Head(lines).tax_ids))),
              amount_total(Tail(lines)))

\* recordset equality: same ids, whatever their order
recordset_eq(a, b) == Range(a) = Range(b)

\* sale.order.line.create: the given values plus the field defaults
sale_order_line_create(vals) ==
    [product_id |-> vals.product_id, sequence |-> vals.sequence,
     product_uom_qty |-> Q(1), price_unit |-> vals.price_unit,
     discount |-> Q(0), tax_ids |-> vals.tax_ids, name |-> vals.name]

\* order lines are read back ordered by sequence, then creation
RECURSIVE InsertLine(_, _)
InsertLine(lines, l) ==
    IF lines = <<>> THEN <<l>>
    ELSE IF Head(lines).sequence > l.sequence THEN <<l>> \o lines
    ELSE <<Head(lines)>> \o InsertLine(Tail(lines), l)

\* "%.*f" % (dp, value): the decimal digits, as the integer value * 10^dp
RoundHalfEven(a) ==
    LET num == Abs(a.n)
        q == num \div a.d
        r == num % a.d
        m == IF 2 * r > a.d \/ (2 * r = a.d /\ q % 2 = 1) THEN q + 1 ELSE q
    IN  IF a.n < 0 THEN -m ELSE m

float_repr(value, dp) == RoundHalfEven(RMul(value, Q(10 ^ dp)))

----------------------------------------------------------------------------
(* The wizard: sale.order.discount *)

\* slip: the constraint looks at the global kind only
check_discount_amount_global_only(w) ==
    /\ w.discount_type = "so_discount"
    /\ RGt(w.discount_percentage, Q(1))

\* TRUE when the constraint raises ValidationError("Invalid discount amount")
check_discount_amount(w) ==
    /\ w.discount_type \in {"sol_discount", "so_discount"}
    /\ RGt(w.discount_percentage, Q(1))

\* slip: the amount is stored without being negated
prepare_discount_line_values_unsigned(product, amount, taxes, description) ==
    [product_id |-> product,
     sequence |-> DiscountSequence,
     price_unit |-> amount,
     tax_ids |-> taxes,
     name |-> IF description # <<>> THEN description ELSE <<"compute_name">>]

prepare_discount_line_values(product, amount, taxes, description) ==
    [product_id |-> product,
     sequence |-> DiscountSequence,
     price_unit |-> RNeg(amount),
     tax_ids |-> taxes,
     name |-> IF description # <<>> THEN description ELSE <<"compute_name">>]

\* slip: the field-level right is not asked for
may_create_product_no_field(acc) == acc.create /\ acc.write

\* has_access('create') and has_access('write') and _has_field_access(.., 'write')
may_create_product(acc) == acc.create /\ acc.write /\ acc.field_write

\* slip: a product is created whenever the user may, configured or not
get_discount_product_always_new(slot, acc, prods) ==
    IF acc.create /\ acc.write /\ acc.field_write
    THEN LET new == Cardinality(prods) + 1
         IN  [raised |-> FALSE, product |-> new, slot |-> new,
              products |-> prods \cup {new}]
    ELSE IF slot # NoProduct
         THEN [raised |-> FALSE, product |-> slot, slot |-> slot,
               products |-> prods]
         ELSE [raised |-> TRUE, product |-> NoProduct, slot |-> slot,
               products |-> prods]

\* result: raised, the product, and the company slot / the products created
\* by the wizard afterwards
get_discount_product(slot, acc, prods) ==
    IF slot # NoProduct
    THEN [raised |-> FALSE, product |-> slot, slot |-> slot, products |-> prods]
    ELSE IF may_create_product(acc)
         THEN LET new == Cardinality(prods) + 1
              IN  [raised |-> FALSE, product |-> new, slot |-> new,
                   products |-> prods \cup {new}]
         ELSE [raised |-> TRUE, product |-> NoProduct, slot |-> slot,
               products |-> prods]

\* the lines the grouping loop skips
skipped(line) == ~Truthy(line.product_uom_qty) \/ ~Truthy(line.price_unit)

\* slip: the discount already on the line is ignored
discounted_price_undiscounted(line) == line.price_unit

discounted_price(line) ==
    RMul(line.price_unit, RSub(Q(1), RDiv(line.discount, Q(100))))

\* slip: every line opens a group of its own
dict_add_never_merges(groups, key, value) ==
    Append(groups, [taxes |-> key, subtotal |-> RAdd(Q(0), value)])

\* slip: = in place of +=, the last line of a group wins
dict_add_overwrites(groups, key, value) ==
    IF \E i \in DOMAIN groups : Range(groups[i].taxes) = Range(key)
    THEN [i \in DOMAIN groups |->
            IF Range(groups[i].taxes) = Range(key)
            THEN [taxes |-> groups[i].taxes, subtotal |-> value]
            ELSE groups[i]]
    ELSE Append(groups, [taxes |-> key, subtotal |-> value])

\* total_price_per_tax_groups[key] += value, on an insertion-ordered dict
dict_add(groups, key, value) ==
    IF \E i \in DOMAIN groups : recordset_eq(groups[i].taxes, key)
    THEN [i \in DOMAIN groups |->
            IF recordset_eq(groups[i].taxes, key)
            THEN [taxes |-> groups[i].taxes,
                  subtotal |-> RAdd(groups[i].subtotal, value)]
            ELSE groups[i]]
    ELSE Append(groups, [taxes |-> key, subtotal |-> RAdd(Q(0), value)])

RECURSIVE group_loop(_, _)
group_loop(lines, groups) ==
    IF lines = <<>> THEN groups
    ELSE LET line == Head(lines)
         IN  IF skipped(line) THEN group_loop(Tail(lines), groups)
             ELSE group_loop(Tail(lines),
                     dict_add(groups, line.tax_ids,
                              RMul(discounted_price(line), line.product_uom_qty)))

total_price_per_tax_groups(lines) == group_loop(lines, <<>>)

\* slip: the fixed amount is divided by the untaxed total of the lines
RECURSIVE amount_untaxed(_)
amount_untaxed(lines) ==
    IF lines = <<>> THEN Q(0)
    ELSE RAdd(RMul(discounted_price(Head(lines)), Head(lines).product_uom_qty),
              amount_untaxed(Tail(lines)))

effective_percentage_untaxed(w, lines) ==
    IF w.discount_type = "amount"
    THEN RDiv(w.discount_amount, amount_untaxed(lines))
    ELSE w.discount_percentage

\* discount_percentage as resolved for the 'amount' and 'so_discount' kinds
effective_percentage(w, lines) ==
    IF w.discount_type = "amount"
    THEN RDiv(w.discount_amount, amount_total(lines))
    ELSE w.discount_percentage

discount_vals_list(w, product, groups, pct) ==
    IF Len(groups) = 1
    THEN << prepare_discount_line_values(
                product, RMul(groups[1].subtotal, pct), groups[1].taxes,
                <<"Discount %", float_repr(RMul(pct, Q(100)), DiscountDP)>>) >>
    ELSE [i \in DOMAIN groups |->
            prepare_discount_line_values(
                product, RMul(groups[i].subtotal, pct), groups[i].taxes,
                IF w.discount_type # "amount"
                THEN <<"Discount % - taxes",
                       float_repr(RMul(pct, Q(100)), DiscountDP), groups[i].taxes>>
                ELSE <<"Discount - taxes", groups[i].taxes>>)]

\* result: the exception raised (if any), the company slot and product table
\* afterwards, and the created sale order lines
create_discount_lines(w, lines, slot, acc, prods) ==
    LET gp == get_discount_product(slot, acc, prods)
        none == [exception |-> "none", slot |-> gp.slot,
                 products |-> gp.products, created |-> <<>>]
    IN  IF gp.raised
        THEN [exception |-> "missing_configuration", slot |-> slot,
              products |-> prods, created |-> <<>>]
        ELSE IF w.discount_type = "amount" /\ ~Truthy(amount_total(lines))
        THEN none
        ELSE LET groups == total_price_per_tax_groups(lines)
             IN  IF groups = <<>> THEN none
                 ELSE LET vals == discount_vals_list(w, gp.product, groups,
                                      effective_percentage(w, lines))
                      IN  [exception |-> "none", slot |-> gp.slot,
                           products |-> gp.products,
                           created |-> [i \in DOMAIN vals |->
                                           sale_order_line_create(vals[i])]]

\* slip: the lines the grouping would skip are not written
write_discount_skipping(lines, w) ==
    [i \in DOMAIN lines |->
        IF skipped(lines[i]) THEN lines[i]
        ELSE [lines[i] EXCEPT !.discount = RMul(w.discount_percentage, Q(100))]]

\* order_line.write({'discount': discount_percentage * 100})
write_discount(lines, w) ==
    [i \in DOMAIN lines |->
        [lines[i] EXCEPT !.discount = RMul(w.discount_percentage, Q(100))]]

action_apply_discount(w, lines, slot, acc, prods) ==
    IF w.discount_type = "sol_discount"
    THEN [exception |-> "none", order_line |-> write_discount(lines, w),
          slot |-> slot, products |-> prods, created |-> <<>>]
    ELSE LET r == create_discount_lines(w, lines, slot, acc, prods)
         IN  [exception |-> r.exception, order_line |-> lines \o r.created,
              slot |-> r.slot, products |-> r.products, created |-> r.created]

----------------------------------------------------------------------------
(* State machine *)

UserLineCount(lines) ==
    Cardinality({i \in DOMAIN lines : lines[i].sequence = DefaultSequence})

Init ==
    /\ order_line = <<>>
    /\ sale_discount_product_id \in {NoProduct, ConfiguredProduct}
    /\ products = {}
    /\ wizard = NoWizard
    /\ access = NoAccess
    /\ exception = "none"
    /\ result = <<>>
    /\ napply = 0

\* the order-management system adds a line to the order (the model follows
\* the order up to its last observed invocation)
AddLine ==
    /\ napply < MaxApply
    /\ UserLineCount(order_line) < MaxLines
    /\ \E l \in LineChoices : order_line' = InsertLine(order_line, l)
    /\ access' = NoAccess
    /\ exception' = "none"
    /\ result' = <<>>
    /\ UNCHANGED <<sale_discount_product_id, products, wizard, napply>>

\* the wizard form is saved (create or write of the record), followed by
\* its constraint; a failing constraint rolls the save back
WizardSave ==
    /\ napply < MaxApply
    /\ \E w \in WizardVals :
         IF check_discount_amount(w)
         THEN exception' = "invalid_discount_amount" /\ wizard' = wizard
         ELSE exception' = "none" /\ wizard' = w
    /\ access' = NoAccess
    /\ result' = <<>>
    /\ UNCHANGED <<order_line, sale_discount_product_id, products, napply>>

\* the Apply button: action_apply_discount run by a user with rights acc;
\* an exception rolls the transaction back
Apply ==
    /\ wizard # NoWizard
    /\ napply < MaxApply
    /\ \E acc \in AccessRights :
         \E r \in {action_apply_discount(wizard, order_line,
                        sale_discount_product_id, acc, products)} :
             /\ access' = acc
             /\ exception' = r.exception
             /\ result' = r.created
             /\ IF r.exception = "none"
                THEN /\ order_line' = r.order_line
                     /\ sale_discount_product_id' = r.slot
                     /\ products' = r.products
                ELSE UNCHANGED <<order_line, sale_discount_product_id, products>>
    /\ napply' = napply + 1
    /\ UNCHANGED wizard

Next == AddLine \/ WizardSave \/ Apply

Spec == Init /\ [][Next]_vars

\* the discount computation alone, on any order the order-management system
\* can hold, for the properties of one invocation as a function of its input
RECURSIVE OrdersUpTo(_)
OrdersUpTo(k) ==
    IF k = 0 THEN {<<>>}
    ELSE LET shorter == OrdersUpTo(k - 1)
         IN  shorter \cup {Append(o, l) : o \in shorter, l \in LineChoices}

InitOrders ==
    /\ order_line \in OrdersUpTo(MaxOrder)
    /\ sale_discount_product_id \in {NoProduct, ConfiguredProduct}
    /\ products = {}
    /\ wizard \in {w \in WizardVals : ~check_discount_amount(w)}
    /\ access = NoAccess
    /\ exception = "none"
    /\ result = <<>>
    /\ napply = 0

ApplyOnce == napply = 0 /\ Apply

SpecOrders == InitOrders /\ [][ApplyOnce]_vars

----------------------------------------------------------------------------
(* Vocabulary of the properties: the quantities the specification names,   *)
(* computed from the order lines without the grouping loop                 *)

ApplyStep == napply' = napply + 1
Completed == exception' = "none"
GlobalKinds == {"so_discount", "amount"}

Grouped(lines) ==
    {i \in DOMAIN lines :
        lines[i].product_uom_qty.n # 0 /\ lines[i].price_unit.n # 0}

\* the effective percentage as the specification defines it
Percentage(w, lines) ==
    IF w.discount_type = "amount"
    THEN RDiv(w.discount_amount, amount_total(lines))
    ELSE w.discount_percentage

TaxSets(lines) == {Range(lines[i].tax_ids) : i \in Grouped(lines)}

Counted(line) == line.product_uom_qty.n # 0 /\ line.price_unit.n # 0

\* subtotal of the lines whose tax set is exactly T
RECURSIVE SubtotalOf(_, _)
SubtotalOf(lines, T) ==
    IF lines = <<>> THEN Q(0)
    ELSE IF Counted(Head(lines)) /\ Range(Head(lines).tax_ids) = T
         THEN RAdd(LineSubtotal(Head(lines)), SubtotalOf(Tail(lines), T))
         ELSE SubtotalOf(Tail(lines), T)

RECURSIVE GroupedTotal(_)
GroupedTotal(lines) ==
    IF lines = <<>> THEN Q(0)
    ELSE IF Counted(Head(lines))
         THEN RAdd(LineSubtotal(Head(lines)), GroupedTotal(Tail(lines)))
         ELSE GroupedTotal(Tail(lines))

Prices(created) == [i \in DOMAIN created |-> created[i].price_unit]

AmountByTaxSet(created) ==
    {<<Range(created[i].tax_ids), created[i].price_unit>> : i \in DOMAIN created}

RECURSIVE Perms(_)
Perms(s) ==
    IF s = <<>> THEN {<<>>}
    ELSE UNION {{ <<s[i]>> \o t :
                    t \in Perms([j \in 1..(Len(s) - 1) |->
                                    IF j < i THEN s[j] ELSE s[j + 1]]) } :
                i \in DOMAIN s}

DiscountLines(lines) ==
    {i \in DOMAIN lines : lines[i].sequence = DiscountSequence}

----------------------------------------------------------------------------
(* Properties *)

\* C1: a completed global-percentage invocation (percentage p <= 1.0) adds
\* to the order one discount line per tax group, the line of a group having
\* amount -(group subtotal * p), so that the amounts sum to -(p * S), S being
\* the sum of price_unit * (1 - discount/100) * product_uom_qty over the
\* lines with non-zero quantity and non-zero unit price.
C1_GlobalPercentageSplit ==
    [][(/\ ApplyStep
        /\ wizard.discount_type = "so_discount"
        /\ ~RGt(wizard.discount_percentage, Q(1))
        /\ Completed)
       => /\ order_line' = order_line \o result'
          /\ RSumSeq(Prices(result')) =
                RNeg(RMul(wizard.discount_percentage, GroupedTotal(order_line)))
          /\ \A i \in DOMAIN result' :
                result'[i].price_unit =
                    RNeg(RMul(SubtotalOf(order_line, Range(result'[i].tax_ids)),
                              wizard.discount_percentage))
          /\ {Range(result'[i].tax_ids) : i \in DOMAIN result'} = TaxSets(order_line)
          /\ Len(result') = Cardinality(TaxSets(order_line))]_vars

\* a 20% global discount has just been split over two tax groups
C1_Witness ==
    /\ napply > 0
    /\ exception = "none"
    /\ wizard.discount_type = "so_discount"
    /\ wizard.discount_percentage = Frac(1, 5)
    /\ Len(result) = 2
    /\ result[1].price_unit = Q(-20)

\* C2: a percentage-based wizard ('sol_discount' or 'so_discount') whose
\* discount_percentage exceeds 1.0 is rejected with "Invalid discount
\* amount": such values are refused by the constraint, no wizard holding them
\* ever exists to be applied, and the rejected operation creates no discount
\* line, changes no order line, and creates or assigns no discount product.
C2_InvalidPercentageRejected ==
    [][/\ \A w \in WizardVals :
            (w.discount_type \in {"sol_discount", "so_discount"}
             /\ RGt(w.discount_percentage, Q(1))) => check_discount_amount(w)
       /\ (wizard'.discount_type \in {"sol_discount", "so_discount"}
            => ~RGt(wizard'.discount_percentage, Q(1)))
       /\ (exception' = "invalid_discount_amount"
            => /\ result' = <<>>
               /\ UNCHANGED <<order_line, sale_discount_product_id,
                              products, wizard, napply>>)]_vars

\* a 150% discount was submitted on an order with lines, and was rejected
C2_Witness ==
    /\ exception = "invalid_discount_amount"
    /\ order_line # <<>>
    /\ result = <<>>

\* C3: a fixed-amount invocation on an order whose amount_total is zero
\* raises nothing and changes nothing, whatever the company's discount
\* product configuration and the user's rights.
C3_ZeroTotalIsNoOp ==
    [][(/\ ApplyStep
        /\ wizard.discount_type = "amount"
        /\ amount_total(order_line).n = 0)
       => /\ exception' = "none"
          /\ result' = <<>>
          /\ UNCHANGED <<order_line, sale_discount_product_id, products>>]_vars

C5_PermutationInvariant ==
    [][(/\ ApplyStep
        /\ wizard.discount_type \in GlobalKinds
        /\ Completed)
       => \A perm \in Perms(order_line) :
            \A r \in {action_apply_discount(wizard, perm,
                         sale_discount_product_id, access', products)} :
                /\ r.exception = "none"
                /\ Len(r.created) = Len(result')
                /\ AmountByTaxSet(r.created) = AmountByTaxSet(result')
                /\ RSumSeq(Prices(r.created)) = RSumSeq(Prices(result'))]_vars

\* an order with two lines of different subtotals in one tax group was
\* discounted
C5_Witness ==
    /\ napply > 0
    /\ exception = "none"
    /\ wizard.discount_type \in GlobalKinds
    /\ result # <<>>
    /\ \E i, j \in DOMAIN order_line :
          /\ i < j
          /\ order_line[i].sequence = DefaultSequence
          /\ order_line[j].sequence = DefaultSequence
          /\ Range(order_line[i].tax_ids) = Range(order_line[j].tax_ids)
          /\ LineSubtotal(order_line[i]) # LineSubtotal(order_line[j])
          /\ LineSubtotal(order_line[i]).n # 0
          /\ LineSubtotal(order_line[j]).n # 0

\* C6: a per-line-percentage invocation sets the discount of every order
\* line, skipped or not, to discount_percentage * 100, creates no line,
\* raises nothing, and leaves the company's discount product and the product
\* table alone whatever the configuration and the user's rights.
C6_PerLineShortCircuit ==
    [][(ApplyStep /\ wizard.discount_type = "sol_discount")
       => /\ exception' = "none"
          /\ result' = <<>>
          /\ Len(order_line') = Len(order_line)
          /\ \A i \in DOMAIN order_line :
                order_line'[i] =
                    [order_line[i] EXCEPT
                        !.discount = RMul(wizard.discount_percentage, Q(100))]
          /\ UNCHANGED <<sale_discount_product_id, products>>]_vars

\* 20% was written on a zero-quantity line by a user without any right, in a
\* company without discount product
C6_Witness ==
    /\ napply > 0
    /\ wizard.discount_type = "sol_discount"
    /\ exception = "none"
    /\ sale_discount_product_id = NoProduct
    /\ access = NoAccess
    /\ \E i \in DOMAIN order_line :
          /\ order_line[i].product_uom_qty.n = 0
          /\ order_line[i].discount = Q(20)

\* C7: for the global-percentage and fixed-amount kinds, when the company
\* has no discount product and one of the three rights is missing, the
\* invocation raises the missing-configuration error and creates no line, no
\* product, and leaves the company's slot empty.
C7_MissingConfiguration ==
    [][(/\ ApplyStep
        /\ wizard.discount_type \in GlobalKinds
        /\ sale_discount_product_id = NoProduct
        /\ ~(access'.create /\ access'.write /\ access'.field_write))
       => /\ exception' = "missing_configuration"
          /\ result' = <<>>
          /\ sale_discount_product_id' = NoProduct
          /\ UNCHANGED <<order_line, products>>]_vars

\* only the field-level write right was missing
C7_Witness ==
    /\ exception = "missing_configuration"
    /\ access.create /\ access.write /\ ~access.field_write
    /\ sale_discount_product_id = NoProduct
    /\ order_line # <<>>

\* C8 as stated: every created discount line has price_unit < 0 and
\* sequence 999.
C8_AlwaysNegative ==
    \A i \in DOMAIN result :
        /\ RLt(result[i].price_unit, Q(0))
        /\ result[i].sequence = DiscountSequence

\* C8 amended: every created discount line has sequence 999 and price_unit
\* = -(group subtotal * effective percentage), which is negative exactly
\* when group subtotal * effective percentage is positive (it is zero for a
\* zero percentage or amount, positive when one of the two is negative).
C8_NegatedShare ==
    [][(/\ ApplyStep
        /\ wizard.discount_type \in GlobalKinds
        /\ (wizard.discount_type = "amount" => amount_total(order_line).n # 0)
        /\ Completed)
       => \A pct \in {Percentage(wizard, order_line)} :
              \A i \in DOMAIN result' :
                \A sub \in {SubtotalOf(order_line, Range(result'[i].tax_ids))} :
                    /\ result'[i].sequence = DiscountSequence
                    /\ result'[i].price_unit = RNeg(RMul(sub, pct))
                    /\ RLt(result'[i].price_unit, Q(0))
                          <=> RGt(RMul(sub, pct), Q(0))]_vars

\* a 20% discount on a tax group whose only line has a negative price gave
\* a discount line with a positive price
C8_Witness ==
    /\ napply > 0
    /\ exception = "none"
    /\ wizard.discount_type = "so_discount"
    /\ \E i \in DOMAIN result :
          /\ result[i].price_unit = Q(4)
          /\ result[i].sequence = DiscountSequence
    /\ \E i \in DOMAIN result : RLt(result[i].price_unit, Q(0))

\* C9: for the fixed-amount kind with a non-zero amount_total, the line of
\* each tax group g satisfies amount_g * amount_total = -(discount_amount *
\* subtotal_g); when amount_total equals the sum of the grouped subtotals,
\* the amounts sum to -discount_amount.
C9_FixedAmountShare ==
    [][(/\ ApplyStep
        /\ wizard.discount_type = "amount"
        /\ amount_total(order_line).n # 0
        /\ Completed)
       => \A total \in {amount_total(order_line)} :
          /\ Len(result') = Cardinality(TaxSets(order_line))
          /\ \A i \in DOMAIN result' :
                RMul(result'[i].price_unit, total) =
                    RNeg(RMul(wizard.discount_amount,
                              SubtotalOf(order_line, Range(result'[i].tax_ids))))
          /\ (total = GroupedTotal(order_line)
                => RSumSeq(Prices(result')) = RNeg(wizard.discount_amount))]_vars

\* 30 was taken off an untaxed order as one line of -30
C9_Witness ==
    /\ napply > 0
    /\ exception = "none"
    /\ wizard.discount_type = "amount"
    /\ wizard.discount_amount = Q(30)
    /\ Len(result) = 1
    /\ result[1].tax_ids = <<>>
    /\ result[1].price_unit = Q(-30)

\* C10: over a sequence of invocations for one company, a product is created
\* only by an invocation that starts with the company's slot empty, at most
\* one product is ever created, a set slot is never changed, and every
\* created discount line references the product in the slot.
C10_ProductResolvedOnce ==
    [][/\ (sale_discount_product_id # NoProduct
            => sale_discount_product_id' = sale_discount_product_id)
       /\ (products' # products
            => /\ ApplyStep
               /\ sale_discount_product_id = NoProduct
               /\ products \subseteq products'
               /\ products' \ products = {sale_discount_product_id'})
       /\ Cardinality(products') <= 1
       /\ \A i \in DOMAIN result' :
            /\ sale_discount_product_id' # NoProduct
            /\ result'[i].product_id = sale_discount_product_id']_vars

\* the product created by the first invocation tags the lines of the second
C10_Witness ==
    /\ napply = 2
    /\ products = {sale_discount_product_id}
    /\ result # <<>>
    /\ \E i \in DiscountLines(order_line) :
          i <= Len(order_line) - Len(result)
    /\ \A i \in DiscountLines(order_line) :
          order_line[i].product_id = sale_discount_product_id

====
